---- MODULE Spec2Model ----
(***************************************************************************)
(* bqwrapper: Load (resumable upload of a json/csv file into BigQuery and  *)
(* polling of the load job) and Dump (query, pagination, cell decoding and *)
(* json/csv output), modelled as one sequential client acting on its       *)
(* environment: the process environment variable HTTP_PROXY, the remote    *)
(* service (dataset listing, load job, query result) and the output file.  *)
(*                                                                         *)
(* Strings the code inspects byte by byte (suffix test, ToLower, delim[0], *)
(* concatenation, sort order) are sequences of bytes; strings the code     *)
(* only compares with "" or with each other are TLA+ strings.              *)
(***************************************************************************)
EXTENDS Integers, Sequences, FiniteSets, TLC

\* ------------------------------------------------------------- bounds
MaxCalls == 2      \* Load/Dump calls in one behaviour
MaxPolls == 3      \* job status polls answered PENDING/RUNNING in one Load
MaxPages == 3      \* page requests in one Dump
MaxRows == 2       \* rows of the query result held by the service
ListPageSize == 1  \* datasets per page of the service's dataset listing

\* ------------------------------------------------------- byte strings
B_dot   == <<46>>
B_comma == <<44>>
B_semi  == <<59>>
B_tab   == <<116, 97, 98>>
B_json  == <<106, 115, 111, 110>>
B_JSON  == <<74, 83, 79, 78>>
B_csv   == <<99, 115, 118>>
B_Csv   == <<67, 115, 118>>
B_xml   == <<120, 109, 108>>
B_eacute == <<195, 169>>
B_NaN   == <<78, 97, 78>>
B_true  == <<116, 114, 117, 101>>
B_false == <<102, 97, 108, 115, 101>>
B_nil   == <<60, 110, 105, 108, 62>>
B_map   == <<109, 97, 112, 91, 93>>
B_a     == <<97>>
B_b     == <<98>>
B_c     == <<99>>

\* strings.HasSuffix
HasSuffix(s, suffix) ==
    /\ Len(s) >= Len(suffix)
    /\ SubSeq(s, Len(s) - Len(suffix) + 1, Len(s)) = suffix

\* strings.ToLower, on ASCII bytes
ToLower(s) == [i \in 1..Len(s) |-> IF s[i] \in 65..90 THEN s[i] + 32 ELSE s[i]]

\* the order of sort.StringSlice: Go's < on strings, bytewise lexicographic
RECURSIVE StrLess(_, _)
StrLess(s, t) ==
    IF Len(t) = 0 THEN FALSE
    ELSE IF Len(s) = 0 THEN TRUE
    ELSE IF s[1] # t[1] THEN s[1] < t[1]
    ELSE StrLess(Tail(s), Tail(t))

\* the UTF-8 encoding of a rune below U+0800, as csv.Writer writes w.Comma
EncodeRune(r) ==
    IF r < 128 THEN <<r>> ELSE <<192 + (r \div 64), 128 + (r % 64)>>

\* ------------------------------------------------ strconv and fmt
IsDigit(b) == b \in 48..57

RECURSIVE DigitsValue(_, _)
DigitsValue(s, acc) ==
    IF Len(s) = 0 THEN acc ELSE DigitsValue(Tail(s), acc * 10 + (s[1] - 48))

AllDigits(s) == \A i \in 1..Len(s) : IsDigit(s[i])

HasSign(s) == Len(s) > 0 /\ s[1] \in {43, 45}
Unsigned(s) == IF HasSign(s) THEN Tail(s) ELSE s
IsNeg(s) == Len(s) > 0 /\ s[1] = 45

\* strconv.ParseInt(s, 10, 64) on values within the model's integer range
ParseInt(s) ==
    LET d == Unsigned(s) IN
    IF Len(d) = 0 \/ ~AllDigits(d) THEN [ok |-> FALSE]
    ELSE [ok |-> TRUE,
          val |-> [k |-> "int",
                   n |-> IF IsNeg(s) THEN 0 - DigitsValue(d, 0) ELSE DigitsValue(d, 0)]]

\* strconv.ParseBool
ParseBool(s) ==
    IF s \in {<<49>>, <<116>>, <<84>>, <<84, 82, 85, 69>>, B_true, <<84, 114, 117, 101>>}
    THEN [ok |-> TRUE, val |-> [k |-> "bool", b |-> TRUE]]
    ELSE IF s \in {<<48>>, <<102>>, <<70>>, <<70, 65, 76, 83, 69>>, B_false,
                   <<70, 97, 108, 115, 101>>}
    THEN [ok |-> TRUE, val |-> [k |-> "bool", b |-> FALSE]]
    ELSE [ok |-> FALSE]

DotAt(s) == IF \E i \in 1..Len(s) : s[i] = 46
            THEN CHOOSE i \in 1..Len(s) : s[i] = 46 /\ \A j \in 1..(i - 1) : s[j] # 46
            ELSE 0

RECURSIVE StripZeros(_)
StripZeros(s) ==
    IF Len(s) > 0 /\ s[Len(s)] = 48 THEN StripZeros(SubSeq(s, 1, Len(s) - 1)) ELSE s

\* strconv.ParseFloat(s, 64) on: "nan", [sign]"inf"/"infinity" (any case) and
\* [sign]digits[.digits]; a finite value is kept as sign, integer part and the
\* fraction digits without trailing zeros
ParseFloat(s) ==
    LET d == Unsigned(s)
        low == ToLower(d)
        p == DotAt(d)
        ip == IF p = 0 THEN d ELSE SubSeq(d, 1, p - 1)
        fp == IF p = 0 THEN <<>> ELSE SubSeq(d, p + 1, Len(d))
    IN
    IF ToLower(s) = <<110, 97, 110>>
    THEN [ok |-> TRUE, val |-> [k |-> "float", cls |-> "nan", neg |-> FALSE, ip |-> 0, fp |-> <<>>]]
    ELSE IF low \in {<<105, 110, 102>>, <<105, 110, 102, 105, 110, 105, 116, 121>>}
    THEN [ok |-> TRUE, val |-> [k |-> "float", cls |-> "inf", neg |-> IsNeg(s), ip |-> 0, fp |-> <<>>]]
    ELSE IF Len(ip) + Len(fp) = 0 \/ ~AllDigits(ip) \/ ~AllDigits(fp)
    THEN [ok |-> FALSE]
    ELSE [ok |-> TRUE,
          val |-> [k |-> "float", cls |-> "num", neg |-> IsNeg(s),
                   ip |-> DigitsValue(ip, 0), fp |-> StripZeros(fp)]]

RECURSIVE Itoa(_)
Itoa(n) ==
    IF n < 0 THEN <<45>> \o Itoa(0 - n)
    ELSE IF n < 10 THEN <<48 + n>>
    ELSE Itoa(n \div 10) \o <<48 + (n % 10)>>

\* fmt.Sprintf("%v", val) of a record value
FormatV(val) ==
    CASE val.k = "null"  -> B_nil
      [] val.k = "str"   -> val.s
      [] val.k = "obj"   -> B_map
      [] val.k = "int"   -> Itoa(val.n)
      [] val.k = "bool"  -> IF val.b THEN B_true ELSE B_false
      [] val.k = "float" ->
            IF val.cls = "nan" THEN B_NaN
            ELSE IF val.cls = "inf"
            THEN (IF val.neg THEN <<45>> ELSE <<43>>) \o <<73, 110, 102>>
            ELSE (IF val.neg THEN <<45>> ELSE <<>>) \o Itoa(val.ip)
                 \o (IF Len(val.fp) = 0 THEN <<>> ELSE B_dot \o val.fp)

\* encoding/json refuses NaN and the infinities (UnsupportedValueError)
Marshalable(val) == ~(val.k = "float" /\ val.cls \in {"nan", "inf"})

\* ------------------------------------------- schema and cell values
\* bigquery.TableFieldSchema, the shape of TableField in types.go
Fld(name, type) == [Name |-> name, Type |-> type, Fields |-> <<>>]
RecordFld(name, fields) == [Name |-> name, Type |-> "RECORD", Fields |-> fields]

\* bigquery.TableCell.V: nil, a string, or a nested object (a RECORD's value)
Null == [k |-> "null"]
Str(s) == [k |-> "str", s |-> s]
Obj == [k |-> "obj"]

\* walkFields(prefix, schema): (name, type) of the field used for a column
RECURSIVE walkFields(_, _)
walkFields(prefix, schema) ==
    IF schema.Type # "RECORD"
    THEN IF prefix = <<>>
         THEN [name |-> schema.Name, ftype |-> schema.Type]
         ELSE [name |-> prefix \o B_dot \o schema.Name, ftype |-> schema.Type]
    ELSE IF Len(schema.Fields) > 0
         THEN walkFields(schema.Fields[1].Name, schema.Fields[1])
         ELSE [name |-> <<>>, ftype |-> ""]

\* toRows, first loop: the fieldType list
fieldNames(fields) == [i \in 1..Len(fields) |-> walkFields(<<>>, fields[i])]

EmptyMap == [x \in {} |-> Null]
MapPut(m, key, val) == [x \in (DOMAIN m) \cup {key} |-> IF x = key THEN val ELSE m[x]]

\* (a variant without the null test: nil passes through for STRING, the type
\* assertion panics on it for the parsed types)
decodeCellNoNullTest(ft, V) ==
    IF ft.ftype = "STRING" THEN [err |-> "nil", val |-> V]
    ELSE IF ft.ftype \in {"INTEGER", "TIMESTAMP", "FLOAT", "BOOLEAN"}
    THEN IF V.k # "str" THEN [err |-> "panic", val |-> Null]
         ELSE LET p == IF ft.ftype = "FLOAT" THEN ParseFloat(V.s)
                       ELSE IF ft.ftype = "BOOLEAN" THEN ParseBool(V.s)
                       ELSE ParseInt(V.s)
              IN IF p.ok THEN [err |-> "nil", val |-> p.val]
                 ELSE [err |-> "Invalid value", val |-> Null]
    ELSE [err |-> "Unsupported field type", val |-> Null]

\* toRows, the body of the loop over a row's cells: the null test, then the
\* switch on the declared type. cell.V.(string) panics on a non-string value.
decodeCell(ft, V) ==
    IF V.k = "null" THEN [err |-> "nil", val |-> Null]
    ELSE IF ft.ftype = "STRING" THEN [err |-> "nil", val |-> V]
    ELSE IF ft.ftype \in {"INTEGER", "TIMESTAMP", "FLOAT", "BOOLEAN"}
    THEN IF V.k # "str" THEN [err |-> "panic", val |-> Null]
         ELSE LET p == IF ft.ftype = "FLOAT" THEN ParseFloat(V.s)
                       ELSE IF ft.ftype = "BOOLEAN" THEN ParseBool(V.s)
                       ELSE ParseInt(V.s)
              IN IF p.ok THEN [err |-> "nil", val |-> p.val]
                 ELSE [err |-> "Invalid value", val |-> Null]
    ELSE [err |-> "Unsupported field type", val |-> Null]

\* toRows, one row: cells i.. of row F decoded into result; names[i] panics
\* (index out of range) when the row has more cells than the schema has fields
RECURSIVE decodeRow(_, _, _, _)
decodeRow(names, F, i, result) ==
    IF i > Len(F) THEN [err |-> "nil", rec |-> result]
    ELSE IF i > Len(names) THEN [err |-> "panic", rec |-> result]
    ELSE LET d == decodeCell(names[i], F[i]) IN
         IF d.err # "nil" THEN [err |-> d.err, rec |-> result]
         ELSE decodeRow(names, F, i + 1, MapPut(result, names[i].name, d.val))

RECURSIVE decodeRows(_, _, _, _)
decodeRows(names, rows, r, results) ==
    IF r > Len(rows) THEN [err |-> "nil", results |-> results]
    ELSE LET d == decodeRow(names, rows[r], 1, EmptyMap) IN
         IF d.err # "nil" THEN [err |-> d.err, results |-> <<>>]
         ELSE decodeRows(names, rows, r + 1, Append(results, d.rec))

toRows(fields, rows) == decodeRows(fieldNames(fields), rows, 1, <<>>)

\* ------------------------------------------------------------ dumpCSV
\* sort.StringSlice.Sort (keys of a map are distinct)
RECURSIVE InsertSorted(_, _)
InsertSorted(sorted, x) ==
    IF Len(sorted) = 0 THEN <<x>>
    ELSE IF StrLess(x, sorted[1]) THEN <<x>> \o sorted
    ELSE <<sorted[1]>> \o InsertSorted(Tail(sorted), x)

RECURSIVE SortStrings(_)
SortStrings(s) ==
    IF Len(s) = 0 THEN <<>> ELSE InsertSorted(SortStrings(Tail(s)), s[1])

\* the orders in which `for key := range data[0]` can yield the keys
RangeOrders(m) ==
    {o \in [1..Cardinality(DOMAIN m) -> DOMAIN m] :
        \A i, j \in DOMAIN o : i # j => o[i] # o[j]}

\* (a variant that keeps the range order)
csvFieldsUnsorted(order) == order

\* dumpCSV: the field list, from the first record's keys in range order
csvFields(order) == SortStrings(order)

\* dumpCSV: one line per record, the value of each field or "" when absent
csvLine(rec, fields) ==
    [i \in 1..Len(fields) |->
        IF fields[i] \in DOMAIN rec THEN FormatV(rec[fields[i]]) ELSE <<>>]

csvLines(data, fields, printFields) ==
    (IF printFields THEN <<fields>> ELSE <<>>)
        \o [n \in 1..Len(data) |-> csvLine(data[n], fields)]

\* dumpCSV: w.Comma; csv.NewWriter starts with ','
csvComma(delim) ==
    IF delim # <<>>
    THEN IF delim = B_tab THEN 9 ELSE delim[1]
    ELSE 44

\* ------------------------------------------------------ output file
NoFile    == [exists |-> FALSE, fmt |-> "none", body |-> <<>>]
OldFile   == [exists |-> TRUE, fmt |-> "old", body |-> <<>>]
EmptyFile == [exists |-> TRUE, fmt |-> "empty", body |-> <<>>]
JSONFile(data, pretty) ==
    [exists |-> TRUE, fmt |-> IF pretty THEN "json-indent" ELSE "json", body |-> data]
\* a csv file: the lines written, each with the bytes written between columns
CSVFile(lines, comma) ==
    [exists |-> TRUE, fmt |-> "csv",
     body |-> [n \in 1..Len(lines) |-> [sep |-> EncodeRune(comma), cols |-> lines[n]]]]

CanMarshal(data) ==
    \A n \in 1..Len(data) : \A key \in DOMAIN data[n] : Marshalable(data[n][key])

\* dumpJSON under the outcome io of the file system ("create_fail",
\* "write_fail", "ok"): the returned error and the file left behind
dumpJSON(data, pretty, io, old) ==
    IF io = "create_fail" THEN [ret |-> "create error", file |-> old]
    ELSE IF pretty
    THEN IF ~CanMarshal(data) THEN [ret |-> "marshal error", file |-> EmptyFile]
         ELSE IF io = "write_fail" THEN [ret |-> "write error", file |-> NoFile]
         ELSE [ret |-> "nil", file |-> JSONFile(data, TRUE)]
    ELSE IF ~CanMarshal(data) THEN [ret |-> "marshal error", file |-> NoFile]
         ELSE IF io = "write_fail" THEN [ret |-> "write error", file |-> NoFile]
         ELSE [ret |-> "nil", file |-> JSONFile(data, FALSE)]

\* dumpCSV under the outcome io of the file system, with the range order of
\* data[0]'s keys and, when the write fails, the number of lines that reached
\* the file; data[0] panics on an empty result; w.WriteAll's error is dropped
dumpCSV(data, delim, printFields, order, io, written, old) ==
    IF Len(data) = 0 THEN [ret |-> "panic", file |-> old]
    ELSE LET lines == csvLines(data, csvFields(order), printFields) IN
         IF io = "create_fail" THEN [ret |-> "create error", file |-> old]
         ELSE IF io = "write_fail"
         THEN [ret |-> "nil", file |-> CSVFile(SubSeq(lines, 1, written), csvComma(delim))]
         ELSE [ret |-> "nil", file |-> CSVFile(lines, csvComma(delim))]

\* ------------------------------------------------- parameter checks
\* Load: "All params are required."
loadMissing(a) ==
    \/ a.projectID = "" \/ a.datasetID = "" \/ a.tableID = ""
    \/ a.jwtFile = "" \/ a.schemaFile = "" \/ a.sourceFile = <<>>

\* (a variant that takes every other file for csv)
sourceFormatDefaultCSV(sourceFile) ==
    IF HasSuffix(sourceFile, B_dot \o B_json) THEN "NEWLINE_DELIMITED_JSON" ELSE "CSV"

\* Load: the source format from the file name's suffix, "" when unsupported
sourceFormat(sourceFile) ==
    IF HasSuffix(sourceFile, B_dot \o B_json) THEN "NEWLINE_DELIMITED_JSON"
    ELSE IF HasSuffix(sourceFile, B_dot \o B_csv) THEN "CSV"
    ELSE ""

\* (a variant that sets HTTP_PROXY whatever the argument is)
setProxyAlways(env, proxy) == proxy

\* Load and Dump: "Set proxy if requested."; the new value of HTTP_PROXY
setProxy(env, proxy) == IF proxy # "" THEN proxy ELSE env

\* Dump: "Required params check."
dumpMissing(a) ==
    \/ a.projectID = "" \/ a.jwtFile = "" \/ a.output = ""
    \/ a.fileFormat = <<>> \/ a.query = ""

\* Dump: the switch on strings.ToLower(fileFormat), "" when unsupported
outputFormat(fileFormat) ==
    IF ToLower(fileFormat) = B_json THEN "json"
    ELSE IF ToLower(fileFormat) = B_csv THEN "csv"
    ELSE ""

\* Dump: the delimiter after the csv case's default
effectiveDelimiter(format, delimiter) ==
    IF format = "csv" /\ delimiter = <<>> THEN B_comma ELSE delimiter

\* ------------------------------------------------------ the service
\* bq.Datasets.List: one page of the project's datasets from token tok (the
\* number of datasets on earlier pages; 0 is the empty token) and the token
\* of the next page
listPage(ds, tok) ==
    LET last == IF tok + ListPageSize < Len(ds) THEN tok + ListPageSize ELSE Len(ds)
    IN [datasets |-> SubSeq(ds, tok + 1, last),
        next |-> IF last < Len(ds) THEN last ELSE 0]

\* (a variant that finds the dataset on no page)
pageHasNever(page, datasetID) == FALSE

\* datasetCreateIfNotExists: the search of one page of the listing
pageHas(page, datasetID) == \E i \in 1..Len(page) : page[i] = datasetID

\* (a variant that never asks for the pages after the first)
morePagesNever(tok) == FALSE

\* datasetCreateIfNotExists: `for token != ""`
morePages(tok) == tok # 0

\* (a variant without the test of res.Status.Errors)
jobDoneIgnoresErrors(res) ==
    IF res.kind = "error" THEN [done |-> FALSE, err |-> "transport error"]
    ELSE IF res.state \in {"PENDING", "RUNNING"} THEN [done |-> FALSE, err |-> "nil"]
    ELSE IF res.state = "DONE" THEN [done |-> TRUE, err |-> "nil"]
    ELSE [done |-> FALSE, err |-> "Unknown job status returned"]

\* (a variant that takes DONE for a state to wait in)
jobDoneWaitsOnDone(res) ==
    IF res.kind = "error" THEN [done |-> FALSE, err |-> "transport error"]
    ELSE IF res.errors # 0 THEN [done |-> FALSE, err |-> "errors returned"]
    ELSE IF res.state \in {"PENDING", "RUNNING", "DONE"} THEN [done |-> FALSE, err |-> "nil"]
    ELSE [done |-> FALSE, err |-> "Unknown job status returned"]

\* jobDone on the response of bq.Jobs.Get: (done, error)
jobDone(res) ==
    IF res.kind = "error" THEN [done |-> FALSE, err |-> "transport error"]
    ELSE IF res.errors # 0 THEN [done |-> FALSE, err |-> "errors returned"]
    ELSE IF res.state \in {"PENDING", "RUNNING"} THEN [done |-> FALSE, err |-> "nil"]
    ELSE IF res.state = "DONE" THEN [done |-> TRUE, err |-> "nil"]
    ELSE [done |-> FALSE, err |-> "Unknown job status returned"]

\* the responses bq.Jobs.Get can bring
PollResponses ==
    {[kind |-> "error", state |-> "", errors |-> 0]}
        \cup [kind : {"job"}, state : {"PENDING", "RUNNING", "DONE", "CANCELLED"},
              errors : {0, 1}]
NoStatus == [kind |-> "none", state |-> "", errors |-> 0]

\* no response received yet
NoResp == [kind |-> "none", step |-> "", code |-> 0, location |-> FALSE,
           body |-> "", project |-> ""]

\* the answers client.Do can bring to the request that initiates the upload:
\* a transport error, or a response with a status code and, or not, a
\* Location header
InitiateResponses ==
    {[kind |-> "error", step |-> "initiate", code |-> 0, location |-> FALSE,
      body |-> "", project |-> ""]}
        \cup {[kind |-> "http", step |-> "initiate", code |-> c, location |-> l,
               body |-> "", project |-> ""] :
                  <<c, l>> \in {<<403, FALSE>>, <<200, FALSE>>, <<200, TRUE>>}}

\* (a variant that goes on without a Location header)
initiateVerdictNoLocationTest(res) ==
    IF res.kind = "error" THEN "error in intial request"
    ELSE IF res.code # 200 THEN "did not get OK"
    ELSE "nil"

\* Load: what the answer to the initiating request makes of the call, "nil"
\* when it goes on
initiateVerdict(res) ==
    IF res.kind = "error" THEN "error in intial request"
    ELSE IF res.code # 200 THEN "did not get OK"
    ELSE IF ~res.location THEN "error getting Location header"
    ELSE "nil"

\* the answers to the request carrying the data: a transport error, or a
\* response with a status code and a body that cannot be read, is no json, or
\* is a job whose reference names a project
UploadResponses ==
    {[kind |-> "error", step |-> "payload", code |-> 0, location |-> FALSE,
      body |-> "", project |-> ""]}
        \cup {[kind |-> "http", step |-> "payload", code |-> c, location |-> FALSE,
               body |-> b, project |-> p] :
                  <<c, b, p>> \in {<<500, "job", "proj">>, <<200, "unreadable", "">>,
                                   <<200, "garbled", "">>, <<200, "job", "other">>,
                                   <<200, "job", "proj">>}}

\* Load: what the answer to the request carrying the data makes of the call
uploadVerdict(res, projectID) ==
    IF res.kind = "error" THEN "Error in response"
    ELSE IF res.code # 200 THEN "Did not get OK"
    ELSE IF res.body = "unreadable" THEN "Error reading response"
    ELSE IF res.body = "garbled" THEN "Error decoding response"
    ELSE IF res.project # projectID THEN "Returned ProjectID != configured ID"
    ELSE "nil"

\* bq.Jobs.Query answered from the service's query result q: an error list,
\* a job not yet complete (no schema, no rows), or the schema with the first
\* n rows and a page token when rows remain
QueryResponses(q) ==
    {[errors |-> 1, hasSchema |-> FALSE, fields |-> <<>>, rows |-> <<>>,
      total |-> 0, token |-> 0],
     [errors |-> 0, hasSchema |-> FALSE, fields |-> <<>>, rows |-> <<>>,
      total |-> 0, token |-> 0]}
        \cup {[errors |-> 0, hasSchema |-> TRUE, fields |-> q.fields,
               rows |-> SubSeq(q.rows, 1, n), total |-> Len(q.rows),
               token |-> IF n < Len(q.rows) THEN n ELSE 0] : n \in 0..Len(q.rows)}

\* bq.Jobs.GetQueryResults(...).StartIndex(start): an error list, or up to
\* all the remaining rows from start
PageResponses(q, start) ==
    {[errors |-> 1, rows |-> <<>>, token |-> 0]}
        \cup {[errors |-> 0, rows |-> SubSeq(q.rows, start + 1, start + n),
               token |-> IF start + n < Len(q.rows) THEN start + n ELSE 0] :
                  n \in 0..(Len(q.rows) - start)}

\* what Dump keeps in view of an answer to a query or page request
TransportError(step) ==
    [kind |-> "error", step |-> step, errors |-> 0, schema |-> FALSE, n |-> 0,
     token |-> 0]
Reply(step, res) ==
    [kind |-> "reply", step |-> step, errors |-> res.errors,
     schema |-> IF step = "query" THEN res.hasSchema ELSE FALSE,
     n |-> Len(res.rows), token |-> res.token]

\* (a variant without the test of res.Schema)
queryVerdictNoSchemaTest(res) ==
    IF res.errors # 0 THEN "errors returned" ELSE "nil"

\* Dump: "Verify response." and "Make sure we got rows."
queryVerdict(res) ==
    IF res.errors # 0 THEN "errors returned"
    ELSE IF ~res.hasSchema THEN "no schema data returned"
    ELSE "nil"

\* Dump: the check of a page response
pageVerdict(res) == IF res.errors # 0 THEN "errors returned" ELSE "nil"

\* (a variant that leaves retrieved as it is)
accumulatedStale(retrieved, res) == retrieved

\* Dump: retrieved += len(res.Rows)
accumulated(retrieved, res) == retrieved + Len(res.rows)

\* ------------------------------------------------------------ inputs
Proxies == {"", "p1", "p2"}
DatasetIDs == {"d1", "d2"}
SourceFiles == {<<>>, B_a \o B_dot \o B_json, B_a \o B_dot \o B_csv, B_json}
FileFormats == {<<>>, B_JSON, B_csv, B_Csv, B_xml}
Delimiters == {<<>>, B_tab, B_semi, B_eacute}

\* the calls enumerated: a valid call with every dataset id and proxy, and
\* that call with one parameter empty or unsupported
LoadBase ==
    [projectID |-> "proj", datasetID |-> "d1", tableID |-> "t", jwtFile |-> "jwt",
     schemaFile |-> "schema", sourceFile |-> B_a \o B_dot \o B_json, proxy |-> "p1"]

LoadArgs ==
    {[LoadBase EXCEPT !.datasetID = d, !.proxy = x] : d \in DatasetIDs, x \in Proxies}
        \cup {[LoadBase EXCEPT ![f] = ""] :
                 f \in {"projectID", "datasetID", "tableID", "jwtFile", "schemaFile"}}
        \cup {[LoadBase EXCEPT !.sourceFile = f] : f \in SourceFiles}

\* the calls enumerated: json with and without pretty under every proxy, csv
\* with every delimiter with and without the header, and a call with one
\* parameter empty or unsupported
DumpBase ==
    [projectID |-> "proj", jwtFile |-> "jwt", output |-> "out", fileFormat |-> B_csv,
     delimiter |-> <<>>, query |-> "q", proxy |-> "p1", pretty |-> FALSE,
     printFields |-> FALSE]

DumpArgs ==
    {[DumpBase EXCEPT !.fileFormat = B_JSON, !.pretty = p, !.proxy = x] :
        p \in BOOLEAN, x \in Proxies}
        \cup {[DumpBase EXCEPT !.delimiter = d, !.printFields = h] :
                 d \in Delimiters, h \in BOOLEAN}
        \cup {[DumpBase EXCEPT ![f] = ""] : f \in {"projectID", "jwtFile", "output", "query"}}
        \cup {[DumpBase EXCEPT !.fileFormat = f] : f \in FileFormats}

NoArgs == [proxy |-> ""]

InitDatasets == {<<>>, <<"d2">>, <<"d2", "d1">>}

\* query results for the pagination: two columns, row i holding i and a float
\* that json can or cannot encode
PagedResults ==
    UNION {[fields : {<<Fld(B_b, "INTEGER"), Fld(B_a, "FLOAT")>>},
            rows : [1..n -> {<<Str(<<49>>), Str(<<49, 46, 53>>)>>,
                             <<Str(<<50>>), Str(B_NaN)>>}]] : n \in 0..MaxRows}

\* -------------------------------------------------------------- state
VARIABLES
    httpProxy,   \* the process environment variable HTTP_PROXY
    datasets,    \* service: the ids of the project's datasets, in listing order
    qres,        \* service: the result of the query, [fields, rows]
    file,        \* the output file
    callsLeft,   \* calls the caller has yet to make
    op,          \* "none", "Load" or "Dump": the call in progress
    pc,          \* where the call in progress stands
    args,        \* its arguments
    ret,         \* what it returned: "none", "nil", an error, or "panic"
    reqs,        \* the requests it has issued to the service, in order
    token,       \* datasetCreateIfNotExists: token
    inserts,     \* datasetCreateIfNotExists: Datasets.Insert calls issued
    ensures,     \* the datasetCreateIfNotExists calls completed so far
    status,      \* Load: the last answer to bq.Jobs.Get
    polls,       \* Load: status polls made
    resp,        \* the last response to an upload request (Load) or to a
                 \* query or page request (Dump)
    fileFormat,  \* Dump: fileFormat after the switch
    delimiter,   \* Dump: delimiter after the switch
    total,       \* Dump: total
    retrieved,   \* Dump: retrieved
    rows,        \* Dump: rows
    fields,      \* Dump: fields
    pageToken,   \* Dump: token
    pages,       \* Dump: page requests made
    result,      \* Dump: result of toRows
    order        \* dumpCSV: the order in which range yielded data[0]'s keys

envVars  == <<httpProxy, datasets, qres, file>>
loadVars == <<token, inserts, ensures, status, polls>>
dumpVars == <<fileFormat, delimiter, total, retrieved, rows, fields, pageToken,
              pages, result, order>>
vars == <<httpProxy, datasets, qres, file, callsLeft, op, pc, args, ret, reqs,
          token, inserts, ensures, status, polls, resp, fileFormat, delimiter, total,
          retrieved, rows, fields, pageToken, pages, result, order>>

\* the locals of a call before it starts
LocalsInit ==
    /\ op = "none" /\ pc = "idle" /\ args = NoArgs /\ ret = "none" /\ reqs = <<>>
    /\ token = 0 /\ inserts = 0 /\ status = NoStatus /\ polls = 0 /\ resp = NoResp
    /\ fileFormat = "" /\ delimiter = <<>> /\ total = 0 /\ retrieved = 0
    /\ rows = <<>> /\ fields = <<>> /\ pageToken = 0 /\ pages = 0
    /\ result = <<>> /\ order = <<>>

Init ==
    /\ httpProxy = ""
    /\ datasets \in InitDatasets
    /\ qres \in {q \in PagedResults : Len(q.rows) = 1}
    /\ file \in {NoFile, OldFile}
    /\ callsLeft = MaxCalls
    /\ ensures = <<>>
    /\ LocalsInit

\* a return: the call is over with value r
Returns(r) == ret' = r /\ pc' = "done"

\* ----------------------------------------------------------------- Load
\* Load, up to the construction of the service client: parameter check,
\* source format, proxy, oauthClient
LoadCall(a) ==
    /\ pc = "idle" /\ callsLeft > 0
    /\ callsLeft' = callsLeft - 1
    /\ op' = "Load" /\ args' = a
    /\ IF loadMissing(a) THEN Returns("missing params") /\ UNCHANGED httpProxy
       ELSE IF sourceFormat(a.sourceFile) = ""
       THEN Returns("Unsupported source file format") /\ UNCHANGED httpProxy
       ELSE /\ httpProxy' = setProxy(httpProxy, a.proxy)
            /\ \/ Returns("credentials error")
               \/ pc' = "ensure" /\ UNCHANGED ret
    /\ UNCHANGED resp
    /\ UNCHANGED <<datasets, qres, file, reqs, loadVars, dumpVars>>

\* datasetCreateIfNotExists returns
EnsureReturns(ok, n) ==
    /\ ensures' = Append(ensures, [datasetID |-> args.datasetID, ok |-> ok,
                                    inserts |-> n])
    /\ IF ok THEN pc' = "files" /\ UNCHANGED ret
       ELSE Returns("Error checking/creating dataset")

\* datasetCreateIfNotExists: the first page of the listing
EnsureList ==
    /\ pc = "ensure"
    /\ reqs' = Append(reqs, [call |-> "datasets.list", token |-> 0])
    /\ \/ EnsureReturns(FALSE, inserts) /\ UNCHANGED token
       \/ LET res == listPage(datasets, 0) IN
          IF pageHas(res.datasets, args.datasetID)
          THEN EnsureReturns(TRUE, inserts) /\ UNCHANGED token
          ELSE /\ token' = res.next /\ pc' = "ensure_more"
               /\ UNCHANGED <<ret, ensures>>
    /\ UNCHANGED resp
    /\ UNCHANGED <<envVars, callsLeft, op, args, inserts, status, polls, dumpVars>>

\* datasetCreateIfNotExists: one turn of the loop over the next pages
EnsureNextPage ==
    /\ pc = "ensure_more" /\ morePages(token)
    /\ reqs' = Append(reqs, [call |-> "datasets.list", token |-> token])
    /\ \/ EnsureReturns(FALSE, inserts) /\ UNCHANGED token
       \/ LET res == listPage(datasets, token) IN
          IF pageHas(res.datasets, args.datasetID)
          THEN EnsureReturns(TRUE, inserts) /\ UNCHANGED token
          ELSE /\ token' = res.next
               /\ UNCHANGED <<pc, ret, ensures>>
    /\ UNCHANGED resp
    /\ UNCHANGED <<envVars, callsLeft, op, args, inserts, status, polls, dumpVars>>

\* datasetCreateIfNotExists: "Dataset not exist, need to create."; the service
\* refuses to create a dataset that exists
EnsureInsert ==
    /\ pc = "ensure_more" /\ ~morePages(token)
    /\ reqs' = Append(reqs, [call |-> "datasets.insert", token |-> 0])
    /\ inserts' = inserts + 1
    /\ \/ EnsureReturns(FALSE, inserts + 1) /\ UNCHANGED datasets
       \/ /\ \A i \in 1..Len(datasets) : datasets[i] # args.datasetID
          /\ datasets' = Append(datasets, args.datasetID)
          /\ EnsureReturns(TRUE, inserts + 1)
    /\ UNCHANGED resp
    /\ UNCHANGED <<httpProxy, qres, file, callsLeft, op, args, token, status, polls,
                   dumpVars>>

\* Load: the schema file, the job configuration and the source file
LoadReadFiles ==
    /\ pc = "files"
    /\ \/ Returns("Error reading schema")
       \/ Returns("error reading source")
       \/ pc' = "initiate" /\ UNCHANGED ret
    /\ UNCHANGED resp
    /\ UNCHANGED <<envVars, callsLeft, op, args, reqs, loadVars, dumpVars>>

\* Load: "Initiate the load request." and the Location of the answer
LoadInitiate ==
    /\ pc = "initiate"
    /\ reqs' = Append(reqs, [call |-> "upload.initiate", token |-> 0])
    /\ \E res \in InitiateResponses :
          /\ resp' = res
          /\ IF initiateVerdict(res) # "nil" THEN Returns(initiateVerdict(res))
             ELSE pc' = "upload" /\ UNCHANGED ret
    /\ UNCHANGED <<envVars, callsLeft, op, args, loadVars, dumpVars>>

\* Load: the request carrying the data, and the job reference it returns
LoadUpload ==
    /\ pc = "upload"
    /\ reqs' = Append(reqs, [call |-> "upload.payload", token |-> 0])
    /\ \E res \in UploadResponses :
          /\ resp' = res
          /\ IF uploadVerdict(res, args.projectID) # "nil"
             THEN Returns(uploadVerdict(res, args.projectID))
             ELSE pc' = "poll" /\ UNCHANGED ret
    /\ UNCHANGED <<envVars, callsLeft, op, args, loadVars, dumpVars>>

\* Load: one tick of "Now wait until this job is done."; the loop has no bound,
\* the polls after the first MaxPolls are neither counted nor recorded
LoadPoll ==
    /\ pc = "poll"
    /\ \E res \in PollResponses :
          LET r == jobDone(res) IN
          /\ status' = res
          /\ IF r.err # "nil" THEN Returns(r.err)
             ELSE IF r.done THEN Returns("nil")
             ELSE UNCHANGED <<pc, ret>>
    /\ IF polls < MaxPolls
       THEN /\ reqs' = Append(reqs, [call |-> "jobs.get", token |-> 0])
            /\ polls' = polls + 1
       ELSE UNCHANGED <<reqs, polls>>
    /\ UNCHANGED resp
    /\ UNCHANGED <<envVars, callsLeft, op, args, token, inserts, ensures, dumpVars>>

\* ----------------------------------------------------------------- Dump
\* Dump, up to the construction of the service client: parameter check,
\* per-format options, proxy, oauthClient
DumpCall(a) ==
    /\ pc = "idle" /\ callsLeft > 0
    /\ callsLeft' = callsLeft - 1
    /\ op' = "Dump" /\ args' = a
    /\ IF dumpMissing(a)
       THEN Returns("no paramters") /\ UNCHANGED <<httpProxy, fileFormat, delimiter>>
       ELSE IF outputFormat(a.fileFormat) = ""
       THEN /\ Returns("Unsupported output file format")
            /\ UNCHANGED <<httpProxy, fileFormat, delimiter>>
       ELSE /\ fileFormat' = outputFormat(a.fileFormat)
            /\ delimiter' = effectiveDelimiter(outputFormat(a.fileFormat), a.delimiter)
            /\ httpProxy' = setProxy(httpProxy, a.proxy)
            /\ \/ Returns("credentials error")
               \/ pc' = "query" /\ UNCHANGED ret
    /\ UNCHANGED resp
    /\ UNCHANGED <<datasets, qres, file, reqs, loadVars, total, retrieved, rows,
                   fields, pageToken, pages, result, order>>

\* Dump: "Send it." and "Verify response.", up to the test for more pages
DumpQuery ==
    /\ pc = "query"
    /\ reqs' = Append(reqs, [call |-> "jobs.query", token |-> 0])
    /\ \/ /\ Returns("Error sending request")
          /\ resp' = TransportError("query")
          /\ UNCHANGED <<total, retrieved, rows, fields, pageToken>>
       \/ \E res \in QueryResponses(qres) :
             /\ resp' = Reply("query", res)
             /\ IF queryVerdict(res) = "errors returned"
                THEN /\ Returns("errors returned")
                     /\ UNCHANGED <<total, retrieved, rows, fields, pageToken>>
                ELSE /\ total' = res.total
                     /\ retrieved' = Len(res.rows)
                     /\ rows' = res.rows
                     /\ IF queryVerdict(res) # "nil"
                        THEN /\ Returns(queryVerdict(res))
                             /\ UNCHANGED <<fields, pageToken>>
                        ELSE /\ fields' = res.fields
                             /\ IF Len(res.rows) # res.total
                                THEN pageToken' = res.token /\ pc' = "page"
                                ELSE pc' = "convert" /\ UNCHANGED pageToken
                             /\ UNCHANGED ret
    /\ UNCHANGED <<envVars, callsLeft, op, args, loadVars, fileFormat, delimiter,
                   pages, result, order>>

\* Dump: one turn of `for int(total) != retrieved`
DumpPage ==
    /\ pc = "page" /\ total # retrieved /\ pages < MaxPages
    /\ reqs' = Append(reqs, [call |-> "jobs.getQueryResults", token |-> pageToken,
                             startIndex |-> retrieved])
    /\ pages' = pages + 1
    /\ \/ /\ Returns("Error getting query results")
          /\ resp' = TransportError("page")
          /\ UNCHANGED <<retrieved, rows, pageToken>>
       \/ \E res \in PageResponses(qres, retrieved) :
             /\ resp' = Reply("page", res)
             /\ IF pageVerdict(res) # "nil"
                THEN /\ Returns(pageVerdict(res))
                     /\ UNCHANGED <<retrieved, rows, pageToken>>
                ELSE /\ pageToken' = res.token
                     /\ rows' = rows \o res.rows
                     /\ retrieved' = accumulated(retrieved, res)
                     /\ pc' = IF total # accumulated(retrieved, res) THEN "page"
                              ELSE "convert"
                     /\ UNCHANGED ret
    /\ UNCHANGED <<envVars, callsLeft, op, args, loadVars, fileFormat, delimiter,
                   total, fields, result, order>>

\* Dump: "Finished getting rows, convert it to map of interface for write."
DumpConvert ==
    /\ pc = "convert"
    /\ LET r == toRows(fields, rows) IN
       IF r.err # "nil"
       THEN Returns(r.err) /\ UNCHANGED result
       ELSE result' = r.results /\ pc' = "write" /\ UNCHANGED ret
    /\ UNCHANGED resp
    /\ UNCHANGED <<envVars, callsLeft, op, args, reqs, loadVars, fileFormat,
                   delimiter, total, retrieved, rows, fields, pageToken, pages, order>>

\* Dump: return dumpJSON(result, output, pretty)
DumpWriteJSON ==
    /\ pc = "write" /\ fileFormat = "json"
    /\ \E io \in {"create_fail", "write_fail", "ok"} :
          LET r == dumpJSON(result, args.pretty, io, file) IN
          file' = r.file /\ Returns(r.ret)
    /\ UNCHANGED resp
    /\ UNCHANGED <<httpProxy, datasets, qres, callsLeft, op, args, reqs, loadVars,
                   dumpVars>>

\* Dump: return dumpCSV(result, output, delimiter, printFields)
DumpWriteCSV ==
    /\ pc = "write" /\ fileFormat # "json"
    /\ IF Len(result) = 0
       THEN LET r == dumpCSV(result, delimiter, args.printFields, <<>>, "ok", 0, file) IN
            file' = r.file /\ Returns(r.ret) /\ UNCHANGED order
       ELSE \E o \in RangeOrders(result[1]) :
            \E io \in {"create_fail", "write_fail", "ok"} :
            \E written \in 0..(Len(result) + (IF args.printFields THEN 1 ELSE 0) - 1) :
               LET r == dumpCSV(result, delimiter, args.printFields, o, io, written, file) IN
               /\ io # "write_fail" => written = 0
               /\ order' = o
               /\ file' = r.file /\ Returns(r.ret)
    /\ UNCHANGED resp
    /\ UNCHANGED <<httpProxy, datasets, qres, callsLeft, op, args, reqs, loadVars,
                   fileFormat, delimiter, total, retrieved, rows, fields, pageToken,
                   pages, result>>

\* the caller goes on after a return (a panic ends the process)
Return ==
    /\ pc = "done" /\ ret # "panic"
    /\ op' = "none" /\ pc' = "idle" /\ args' = NoArgs /\ ret' = "none" /\ reqs' = <<>>
    /\ token' = 0 /\ inserts' = 0 /\ status' = NoStatus /\ polls' = 0 /\ resp' = NoResp
    /\ fileFormat' = "" /\ delimiter' = <<>> /\ total' = 0 /\ retrieved' = 0
    /\ rows' = <<>> /\ fields' = <<>> /\ pageToken' = 0 /\ pages' = 0
    /\ result' = <<>> /\ order' = <<>>
    /\ UNCHANGED <<envVars, callsLeft, ensures>>

LoadNext ==
    \/ \E a \in LoadArgs : LoadCall(a)
    \/ EnsureList
    \/ EnsureNextPage
    \/ EnsureInsert
    \/ LoadReadFiles
    \/ LoadInitiate
    \/ LoadUpload
    \/ LoadPoll

DumpNext ==
    \/ \E a \in DumpArgs : DumpCall(a)
    \/ DumpQuery
    \/ DumpPage
    \/ DumpConvert
    \/ DumpWriteJSON
    \/ DumpWriteCSV

Next == LoadNext \/ DumpNext \/ Return

Spec == Init /\ [][Next]_vars

\* one Load call; the ticker fires every 3 seconds, so a Load in the polling
\* loop does poll
InitLoad ==
    /\ httpProxy = ""
    /\ datasets \in InitDatasets
    /\ qres \in {q \in PagedResults : Len(q.rows) = 1}
    /\ file \in {NoFile, OldFile}
    /\ callsLeft = 1
    /\ ensures = <<>>
    /\ LocalsInit

SpecLoad == InitLoad /\ [][LoadNext]_vars /\ WF_vars(LoadPoll)

\* one Dump call, over every query result of the pagination
InitDump ==
    /\ httpProxy = ""
    /\ datasets = <<>>
    /\ qres \in PagedResults
    /\ file \in {NoFile, OldFile}
    /\ callsLeft = 1
    /\ ensures = <<>>
    /\ LocalsInit

SpecDump == InitDump /\ [][DumpNext]_vars

\* the same, where a Dump in the pagination loop with rows outstanding does
\* send its next request
SpecPages == InitDump /\ [][DumpNext]_vars /\ WF_vars(DumpPage)

\* ------------------------------------- decoding and writing, in depth
\* top-level fields of a query result's schema: every primitive type, a type
\* toRows does not support, and RECORDs with one child, two children, a
\* nested RECORD and no child
FieldPool ==
    {Fld(B_a, "STRING"), Fld(B_b, "INTEGER"), Fld(B_c, "FLOAT"), Fld(B_b, "BOOLEAN"),
     Fld(B_c, "BYTES"),
     RecordFld(B_b, <<Fld(B_a, "STRING")>>),
     RecordFld(B_c, <<Fld(B_a, "INTEGER"), Fld(B_b, "STRING")>>),
     RecordFld(B_a, <<RecordFld(B_b, <<Fld(B_c, "TIMESTAMP")>>)>>),
     RecordFld(B_a, <<>>)}

SchemaPool == {<<f>> : f \in FieldPool} \cup {<<f, g>> : f, g \in FieldPool}

\* the rows of a result with w columns: every row of nulls and "1", the row
\* of "NaN", the row of nested objects, and a row of nulls one cell short and
\* one cell long
RowPool(w) ==
    [1..w -> {Null, Str(<<49>>)}]
        \cup {[i \in 1..w |-> Str(B_NaN)], [i \in 1..w |-> Obj],
              [i \in 1..(w - 1) |-> Null], [i \in 1..(w + 1) |-> Null]}

DecodedResults ==
    UNION {[fields : {f}, rows : UNION {[1..n -> RowPool(Len(f))] : n \in 0..MaxRows}] :
              f \in SchemaPool}

\* a Dump that has the whole result of its query in hand, about to call toRows
InitRows ==
    /\ httpProxy = "p1"
    /\ datasets = <<>>
    /\ qres \in DecodedResults
    /\ file = NoFile
    /\ callsLeft = 0
    /\ op = "Dump" /\ pc = "convert" /\ ret = "none"
    /\ args \in {a \in DumpArgs : /\ ~dumpMissing(a) /\ outputFormat(a.fileFormat) # ""
                                  /\ a.proxy = "p1" /\ a.delimiter = <<>>}
    /\ reqs = <<[call |-> "jobs.query", token |-> 0]>>
    /\ token = 0 /\ inserts = 0 /\ ensures = <<>> /\ status = NoStatus /\ polls = 0
    /\ resp = Reply("query", [errors |-> 0, hasSchema |-> TRUE, rows |-> qres.rows,
                               token |-> 0])
    /\ fileFormat = outputFormat(args.fileFormat)
    /\ delimiter = effectiveDelimiter(fileFormat, args.delimiter)
    /\ total = Len(qres.rows) /\ retrieved = Len(qres.rows)
    /\ rows = qres.rows /\ fields = qres.fields
    /\ pageToken = 0 /\ pages = 0 /\ result = <<>> /\ order = <<>>

RowsNext == DumpConvert \/ DumpWriteJSON \/ DumpWriteCSV

SpecRows == InitRows /\ [][RowsNext]_vars

\* =============================================================== claims
DumpReturned == op = "Dump" /\ pc = "done"
LoadReturned == op = "Load" /\ pc = "done"

\* the records in the output file: the json array's elements, the csv data lines
HeaderLines == IF args.printFields THEN 1 ELSE 0
RecordsInFile ==
    IF file.fmt \in {"json", "json-indent"} THEN Len(file.body)
    ELSE IF file.fmt = "csv" /\ Len(file.body) >= HeaderLines
    THEN Len(file.body) - HeaderLines
    ELSE 0

\* C1: whenever Dump returns success, the number of records written to the
\* output equals the total rows reported by the initial query response (json
\* and csv, one response or several pages, zero rows included).
C1_RecordsEqualTotal ==
    (DumpReturned /\ ret = "nil") => (file.exists /\ RecordsInFile = total)

\* the part of C1 that the pagination decides: toRows is handed exactly total rows
C1_AccumulatedEqualsTotal ==
    (op = "Dump" /\ pc \in {"convert", "write"}) =>
        (retrieved = total /\ Len(rows) = total /\ rows = qres.rows)

\* C2: Load returns one outcome. Success only after a poll that reported DONE
\* with no job errors; a poll reporting PENDING or RUNNING without errors
\* leaves Load polling, not returned; a poll with job errors (whatever the
\* state) or with a state outside PENDING, RUNNING, DONE makes Load return
\* an error.
C2_LoadOutcome ==
    op = "Load" =>
        /\ (pc = "done") <=> (ret # "none")
        /\ ret = "nil" =>
              /\ pc = "done" /\ polls >= 1
              /\ reqs[Len(reqs)].call = "jobs.get"
              /\ status.kind = "job" /\ status.state = "DONE" /\ status.errors = 0
        /\ (status.kind = "job" /\ status.errors = 0
              /\ status.state \in {"PENDING", "RUNNING"}) =>
              (pc = "poll" /\ ret = "none")
        /\ (status.kind = "job"
              /\ (status.errors # 0 \/ status.state \notin {"PENDING", "RUNNING", "DONE"})) =>
              (pc = "done" /\ ret \notin {"none", "nil"})

C2_Witness ==
    /\ LoadReturned /\ ret = "nil" /\ polls >= 2
    /\ status.state = "DONE"

\* C3: once a dataset-ensure call for a dataset id has succeeded, a later call
\* for the same id issues no Datasets.Insert, and no call issues more than
\* one: two successive successful calls issue at most one Insert in total, the
\* second none.
C3_EnsureIdempotent ==
    \A i \in 1..Len(ensures) :
        /\ ensures[i].inserts <= 1
        /\ \A j \in (i + 1)..Len(ensures) :
              (ensures[i].ok /\ ensures[j].datasetID = ensures[i].datasetID) =>
                  ensures[j].inserts = 0

C3_Witness ==
    /\ Len(ensures) >= 2
    /\ ensures[1].ok /\ ensures[1].inserts = 1
    /\ ensures[2].ok /\ ensures[2].inserts = 0
    /\ ensures[2].datasetID = ensures[1].datasetID

\* the flattened name and type C4 states for a top-level field
ParentChild(f) ==
    IF f.Type # "RECORD" THEN [name |-> f.Name, ftype |-> f.Type]
    ELSE [name |-> f.Name \o B_dot \o f.Fields[1].Name, ftype |-> f.Fields[1].Type]

\* C4: a top-level RECORD field P whose first nested field is a primitive C is
\* flattened to the name "P.C" with C's type, a top-level primitive field N
\* keeps N and its type, and toRows uses that name as the record key.
C4_ParentChildNames ==
    (op = "Dump" /\ pc = "write") =>
        \A i \in 1..Len(fields) :
            (fields[i].Type = "RECORD" =>
                (Len(fields[i].Fields) > 0 /\ fields[i].Fields[1].Type # "RECORD")) =>
                /\ fieldNames(fields)[i] = ParentChild(fields[i])
                /\ \A r \in 1..Len(rows) :
                      i <= Len(rows[r]) => ParentChild(fields[i]).name \in DOMAIN result[r]

\* C5: Dump returns success only if the output file was completely written; a
\* failure while writing it, csv or json, comes back as an error.
C5_SuccessMeansWritten ==
    (DumpReturned /\ ret = "nil") =>
        /\ file.exists
        /\ file.fmt = (IF fileFormat = "csv" THEN "csv"
                       ELSE IF args.pretty THEN "json-indent" ELSE "json")
        /\ Len(file.body) = Len(result) + (IF fileFormat = "csv" THEN HeaderLines ELSE 0)

\* C6: whenever dumpJSON returns an error after it created the output file (a
\* marshalling or a write failure, pretty or not), the file no longer exists.
C6_JSONCleanup ==
    (DumpReturned /\ fileFormat = "json" /\ ret \in {"marshal error", "write error"}) =>
        ~file.exists

\* the i-th of the names S in ascending order
NameAt(i, S) == CHOOSE key \in S : Cardinality({x \in S : StrLess(x, key)}) = i - 1

\* C7: in the csv file the columns of the header (when requested) and of every
\* data line are the field names in ascending order, whatever order the keys
\* came in, and column i of a data line holds that record's value for the
\* i-th name ("" when the record has no such key).
C7_CSVColumnsSorted ==
    (DumpReturned /\ fileFormat = "csv" /\ ret = "nil") =>
        LET S == DOMAIN result[1] IN
        \A n \in 1..Len(file.body) :
            /\ Len(file.body[n].cols) = Cardinality(S)
            /\ \A i \in 1..Cardinality(S) :
                  file.body[n].cols[i] =
                     IF n <= HeaderLines THEN NameAt(i, S)
                     ELSE IF NameAt(i, S) \in DOMAIN result[n - HeaderLines]
                     THEN FormatV(result[n - HeaderLines][NameAt(i, S)])
                     ELSE <<>>

C7_Witness ==
    /\ DumpReturned /\ fileFormat = "csv" /\ ret = "nil" /\ args.printFields
    /\ Len(file.body) = 3 /\ Len(order) = 2
    /\ StrLess(order[2], order[1])
    /\ StrLess(fieldNames(fields)[2].name, fieldNames(fields)[1].name)
    /\ file.body[1].cols = <<order[2], order[1]>>
    /\ file.body[2].cols # file.body[3].cols

SupportedTypes == {"STRING", "INTEGER", "TIMESTAMP", "FLOAT", "BOOLEAN"}
DecodingErrors == {"Invalid value", "Unsupported field type"}

\* C8: a null cell is decoded to a null value under the flattened name of its
\* position, whatever the declared type, and never produces a decoding or
\* unsupported-type error: decoding a row up to a null cell succeeds whenever
\* decoding up to the cell before it does, the records toRows returns hold
\* null under that name (unless a later cell of the row has the same name),
\* and an error toRows returns comes from a cell that is not null.
C8_NullDecodesToNull ==
    (op = "Dump" /\ pc \in {"convert", "write", "done"}) =>
        LET names == fieldNames(fields) IN
        /\ \A r \in 1..Len(rows) : \A i \in 1..Len(rows[r]) :
              (rows[r][i] = Null /\ i <= Len(names)) =>
                 LET before == decodeRow(names, SubSeq(rows[r], 1, i - 1), 1, EmptyMap)
                     upto == decodeRow(names, SubSeq(rows[r], 1, i), 1, EmptyMap)
                 IN before.err = "nil" =>
                       /\ upto.err = "nil"
                       /\ names[i].name \in DOMAIN upto.rec
                       /\ upto.rec[names[i].name] = Null
        /\ pc = "write" =>
              \A r \in 1..Len(rows) : \A i \in 1..Len(rows[r]) :
                 (/\ rows[r][i] = Null
                  /\ \A j \in (i + 1)..Len(rows[r]) : names[j].name # names[i].name) =>
                     result[r][names[i].name] = Null
        /\ (pc = "done" /\ ret \in DecodingErrors) =>
              \E r \in 1..Len(rows) : \E i \in 1..Len(rows[r]) :
                 rows[r][i] # Null /\ decodeCell(names[i], rows[r][i]).err = ret

C8_Witness ==
    /\ op = "Dump" /\ pc = "write" /\ Len(rows) = 2 /\ Len(fields) = 2
    /\ fieldNames(fields)[1].ftype \notin SupportedTypes
    /\ fieldNames(fields)[2].ftype = "INTEGER"
    /\ rows[2] = <<Null, Null>> /\ rows[1] = <<Null, Str(<<49>>)>>
    /\ result[2][fieldNames(fields)[1].name] = Null
    /\ result[2][fieldNames(fields)[2].name] = Null

\* the first character of a string in UTF-8 (one or two bytes)
FirstChar(s) == IF s[1] < 128 THEN <<s[1]>> ELSE SubSeq(s, 1, 2)

\* C9: in a csv Dump the delimiter "tab" separates the columns by a tab, the
\* empty delimiter by a comma, any other delimiter by its first character.
C9_Separator ==
    (DumpReturned /\ fileFormat = "csv" /\ ret = "nil") =>
        \A n \in 1..Len(file.body) :
            file.body[n].sep =
               IF args.delimiter = B_tab THEN <<9>>
               ELSE IF args.delimiter = <<>> THEN B_comma
               ELSE FirstChar(args.delimiter)

\* what C9 states, for delimiters that start with an ASCII character
C9_SeparatorASCII ==
    (DumpReturned /\ fileFormat = "csv" /\ ret = "nil"
        /\ (args.delimiter # <<>> => args.delimiter[1] < 128)) =>
        \A n \in 1..Len(file.body) :
            file.body[n].sep =
               IF args.delimiter = B_tab THEN <<9>>
               ELSE IF args.delimiter = <<>> THEN B_comma
               ELSE FirstChar(args.delimiter)

\* the validation C10 speaks of, read off the arguments of a call
PassesValidation(o, a) ==
    IF o = "Load"
    THEN /\ a.projectID # "" /\ a.datasetID # "" /\ a.tableID # "" /\ a.jwtFile # ""
         /\ a.schemaFile # "" /\ a.sourceFile # <<>>
         /\ (HasSuffix(a.sourceFile, <<46, 106, 115, 111, 110>>)
               \/ HasSuffix(a.sourceFile, <<46, 99, 115, 118>>))
    ELSE /\ a.projectID # "" /\ a.jwtFile # "" /\ a.output # "" /\ a.query # ""
         /\ ToLower(a.fileFormat) \in {B_json, B_csv}

\* C10: a step changes HTTP_PROXY only when it starts a Load or Dump call that
\* passes validation with a non-empty proxy, and then to that proxy; every
\* other step (a call failing validation, a call with an empty proxy, any
\* later step of a call, a return) leaves it as it is. HTTP_PROXY is thus the
\* last non-empty proxy of a call that passed validation.
C10_ProxySideEffect ==
    [][httpProxy' =
          IF pc = "idle" /\ pc' # "idle" /\ PassesValidation(op', args') /\ args'.proxy # ""
          THEN args'.proxy
          ELSE httpProxy]_vars

C10_Witness ==
    /\ pc \in {"ensure", "query"} /\ args.proxy = ""
    /\ callsLeft = MaxCalls - 2
    /\ httpProxy = "p2"

\* the step sends one more request, a call c
Sends(c) ==
    /\ Len(reqs') = Len(reqs) + 1
    /\ SubSeq(reqs', 1, Len(reqs)) = reqs
    /\ reqs'[Len(reqs')].call = c

\* the place of a request in the protocol of Load
Rank(c) ==
    CASE c = "datasets.list" -> 1
      [] c = "datasets.insert" -> 2
      [] c = "upload.initiate" -> 3
      [] c = "upload.payload" -> 4
      [] c = "jobs.get" -> 5
      [] OTHER -> 0

\* the answer to an upload request that lets Load go on
GoodInitiate(r) == r.step = "initiate" /\ r.kind = "http" /\ r.code = 200 /\ r.location
GoodPayload(r, projectID) ==
    /\ r.step = "payload" /\ r.kind = "http" /\ r.code = 200
    /\ r.body = "job" /\ r.project = projectID

\* C11: in a Load the dataset-ensure requests come before the initiating
\* request, and that one is sent only after the ensure step succeeded; the
\* request carrying the data is sent only after the initiating request was
\* answered 200 with a location; the first status poll is sent only after the
\* data request was answered 200 with a job of the requested project. A
\* failing answer (transport error, non-200, no location, unreadable or
\* undecodable body, other project) makes Load return an error, and no
\* request follows it.
C11_StepOrder ==
    /\ [](op = "Load" =>
            /\ \A i, j \in 1..Len(reqs) :
                  i < j => /\ Rank(reqs[i].call) <= Rank(reqs[j].call)
                           /\ Rank(reqs[j].call) \in {3, 4} =>
                                 Rank(reqs[i].call) < Rank(reqs[j].call)
            /\ (resp.step = "initiate" /\ ~GoodInitiate(resp)) =>
                  /\ pc = "done" /\ ret \notin {"none", "nil"}
                  /\ reqs[Len(reqs)].call = "upload.initiate"
            /\ (resp.step = "payload" /\ ~GoodPayload(resp, args.projectID)) =>
                  /\ pc = "done" /\ ret \notin {"none", "nil"}
                  /\ reqs[Len(reqs)].call = "upload.payload"
            /\ (pc = "done" /\ ret = "Error checking/creating dataset") =>
                  \A i \in 1..Len(reqs) : Rank(reqs[i].call) \in {1, 2})
    /\ [][/\ Sends("upload.initiate") =>
               /\ op = "Load" /\ Len(reqs) >= 1 /\ Len(ensures) >= 1
               /\ ensures[Len(ensures)].ok
               /\ ensures[Len(ensures)].datasetID = args.datasetID
          /\ Sends("upload.payload") =>
               /\ GoodInitiate(resp)
               /\ reqs[Len(reqs)].call = "upload.initiate"
          /\ (Sends("jobs.get") /\ polls = 0) =>
               /\ GoodPayload(resp, args.projectID)
               /\ reqs[Len(reqs)].call = "upload.payload"]_vars

C11_Witness ==
    /\ op = "Load" /\ pc = "poll" /\ polls = 1
    /\ [i \in 1..Len(reqs) |-> reqs[i].call] =
          <<"datasets.list", "datasets.insert", "upload.initiate", "upload.payload",
            "jobs.get">>
    /\ GoodPayload(resp, args.projectID)

\* a poll answer on which jobDone does not say "not yet"
Terminal(st) ==
    \/ st.kind = "error"
    \/ st.kind = "job" /\ (st.errors # 0 \/ st.state \notin {"PENDING", "RUNNING"})

\* C12: once Load is in the polling loop it keeps polling; if some poll
\* reports DONE, a job error, an unrecognized state or a transport error,
\* Load eventually returns; Load leaves the loop only on such a poll, and
\* after any number of polls another poll that leaves Load in the loop is
\* possible (no timeout, no bound): if every poll reports PENDING or RUNNING
\* without errors Load never returns.
C12_PollingLiveness ==
    /\ Terminal(status) ~> (pc = "done")
    /\ (pc = "poll" /\ polls < MaxPolls) ~> (pc = "done" \/ polls = MaxPolls)
    /\ [](pc = "poll" => ENABLED (LoadPoll /\ pc' = "poll"))
    /\ [][(pc = "poll" /\ pc' # "poll") => (pc' = "done" /\ Terminal(status'))]_vars

C12_Witness ==
    /\ LoadReturned /\ ret = "nil" /\ polls = MaxPolls
    /\ status.state = "DONE" /\ status.errors = 0

\* the page requests of the Dump in progress, as places in reqs
PageReqs == {i \in 1..Len(reqs) : reqs[i].call = "jobs.getQueryResults"}

\* some page response so far brought no row: the next request started where
\* its request did, or, for the last one, the rows in hand end there
ZeroRowPage ==
    \E i \in PageReqs :
        IF i < Len(reqs) THEN reqs[i + 1].startIndex = reqs[i].startIndex
        ELSE Len(rows) = reqs[i].startIndex

\* C13: a Dump whose first response is partial, and whose page responses are
\* free of errors and bring at least one row each, leaves the pagination loop
\* after at most total page requests with total rows in hand; each page
\* request carries the page token of the previous response and a start index
\* equal to the number of rows in hand, and none is sent once that number
\* equals total.
C13_PaginationTerminates ==
    /\ (pc = "page") ~> (pc # "page" \/ ZeroRowPage)
    /\ [](op = "Dump" =>
            /\ (pc = "page" /\ ~ZeroRowPage) => pages < total
            /\ pc \in {"convert", "write"} =>
                  /\ retrieved = total /\ Len(rows) = total
                  /\ ~ZeroRowPage => pages <= total
            /\ (pc = "page") => (resp.kind = "reply" /\ resp.errors = 0
                                   /\ Len(rows) < total))
    /\ [][Sends("jobs.getQueryResults") =>
             /\ pc = "page" /\ Len(rows) # total
             /\ reqs'[Len(reqs')].startIndex = Len(rows)
             /\ reqs'[Len(reqs')].token = resp.token
             /\ resp.kind = "reply" /\ resp.errors = 0]_vars

C13_Witness ==
    /\ op = "Dump" /\ pc = "convert" /\ total = MaxRows /\ pages = MaxRows
    /\ ~ZeroRowPage /\ Len(rows) = total
    /\ reqs[Len(reqs)].startIndex = total - 1 /\ reqs[Len(reqs)].token = total - 1

\* an answer to a query or page request that Dump must fail on
FailedAnswer(r) ==
    /\ r.step \in {"query", "page"}
    /\ \/ r.kind = "error"
       \/ r.errors # 0
       \/ r.step = "query" /\ ~r.schema

\* C14: when the query request fails, or its response reports errors or has
\* no schema, or a page request fails or its response reports errors, Dump
\* returns an error, that request is its last, the rows are not converted,
\* and the output file is neither created nor modified: the file changes
\* only in the writing step of a Dump all of whose answers were good.
C14_QueryErrors ==
    /\ []((op = "Dump" /\ FailedAnswer(resp)) =>
            /\ pc = "done" /\ ret \notin {"none", "nil"}
            /\ reqs[Len(reqs)].call =
                  (IF resp.step = "query" THEN "jobs.query" ELSE "jobs.getQueryResults")
            /\ resp.step = "query" => Len(reqs) = 1
            /\ result = <<>> /\ order = <<>>)
    /\ [][/\ (op' = "Dump" /\ FailedAnswer(resp')) => file' = file
          /\ file' # file => (op = "Dump" /\ pc = "write" /\ ~FailedAnswer(resp))]_vars

C14_Witness ==
    /\ DumpReturned /\ ret = "errors returned"
    /\ resp.step = "page" /\ resp.errors # 0
    /\ pages = 2 /\ Len(rows) = 1 /\ total = 2
    /\ file = OldFile

\* the requests of the ensure step of the Load in progress
ListReqs == {i \in 1..Len(reqs) : reqs[i].call = "datasets.list"}
InsertReqs == {i \in 1..Len(reqs) : reqs[i].call = "datasets.insert"}

\* the place of a dataset id in a listing (0 when absent), the page of a
\* place (from 0) and the number of pages of a listing of n datasets
PosOf(id, ds) ==
    IF \E i \in 1..Len(ds) : ds[i] = id
    THEN CHOOSE i \in 1..Len(ds) : ds[i] = id /\ \A j \in 1..(i - 1) : ds[j] # id
    ELSE 0
PageOf(pos) == (pos - 1) \div ListPageSize
NumPages(n) == IF n = 0 THEN 1 ELSE (n + ListPageSize - 1) \div ListPageSize

EnsureOk == op = "Load" /\ pc \in {"files", "initiate", "upload", "poll"}
EnsureFailed == op = "Load" /\ pc = "done" /\ ret = "Error checking/creating dataset"

\* C15: the ensure step follows the listing page by page; it issues a creation
\* call only after every page was listed and none held the dataset id, and a
\* successful ensure issued one exactly when the id was on no page; when the
\* id is on a page it succeeds without a creation call, and the page holding
\* the id is the last one it requested.
C15_CreationCondition ==
    op = "Load" =>
        LET id == args.datasetID
            nl == Cardinality(ListReqs)
            ni == Cardinality(InsertReqs)
            pos == PosOf(id, datasets)
        IN
        /\ ni <= 1
        /\ \A i \in ListReqs : reqs[i].token = (i - 1) * ListPageSize
        /\ pc = "ensure_more" => (ni = 0 /\ (pos = 0 \/ PageOf(pos) >= nl))
        /\ (EnsureOk /\ ni = 1) =>
              /\ pos = Len(datasets)
              /\ nl = NumPages(Len(datasets) - 1)
        /\ (EnsureOk /\ ni = 0) => (pos > 0 /\ nl = PageOf(pos) + 1)
        /\ (EnsureFailed /\ ni = 1) => (pos = 0 /\ nl = NumPages(Len(datasets)))
        /\ (EnsureFailed /\ ni = 0) => (pos = 0 \/ PageOf(pos) >= nl - 1)

C15_Witness ==
    /\ EnsureOk /\ Cardinality(InsertReqs) = 0 /\ Cardinality(ListReqs) = 2
    /\ PosOf(args.datasetID, datasets) = ListPageSize + 1
    /\ reqs[2].token = ListPageSize

ValidationErrors ==
    {"missing params", "Unsupported source file format", "no paramters",
     "Unsupported output file format"}

\* C16: a Load or Dump call with an empty required parameter or an unsupported
\* source suffix or output format returns an error at once, leaving
\* HTTP_PROXY, the datasets and the output file as they were and sending no
\* request.
C16_ValidationFrame ==
    /\ []((op \in {"Load", "Dump"} /\ ~PassesValidation(op, args)) =>
            /\ pc = "done" /\ ret \in ValidationErrors
            /\ reqs = <<>> /\ inserts = 0
            /\ resp = NoResp /\ status = NoStatus)
    /\ [][(pc = "idle" /\ pc' # "idle" /\ ~PassesValidation(op', args')) =>
             /\ httpProxy' = httpProxy
             /\ datasets' = datasets
             /\ file' = file
             /\ ensures' = ensures]_vars

C16_Witness ==
    /\ LoadReturned /\ ret = "Unsupported source file format"
    /\ args.sourceFile = B_json
    /\ args.proxy = "p1" /\ httpProxy = "" /\ reqs = <<>>

\* the top-level field names of a schema are pairwise distinct
DistinctTopLevel(fs) == \A i, j \in 1..Len(fs) : i # j => fs[i].Name # fs[j].Name

\* a record holds one entry per position of the row, that of position i the
\* decoded value of cell i
CompleteRecord(names, F, rec) ==
    /\ Cardinality(DOMAIN rec) = Len(F)
    /\ \A i \in 1..Len(F) :
          /\ names[i].name \in DOMAIN rec
          /\ rec[names[i].name] = decodeCell(names[i], F[i]).val

\* C17: for a schema with pairwise distinct top-level field names and a row
\* with one cell per top-level field, the record toRows yields has exactly
\* one entry per field, the entry of position i holding the decoded value of
\* cell i; no cell's value is overwritten by another cell of the row.
C17_RecordComplete ==
    (op = "Dump" /\ pc = "write" /\ DistinctTopLevel(fields)) =>
        \A r \in 1..Len(rows) :
            Len(rows[r]) = Len(fields) =>
                CompleteRecord(fieldNames(fields), rows[r], result[r])

\* what C17 states, for schemas without RECORD fields
C17_RecordCompletePrimitive ==
    (op = "Dump" /\ pc = "write" /\ DistinctTopLevel(fields)
        /\ \A i \in 1..Len(fields) : fields[i].Type # "RECORD") =>
        \A r \in 1..Len(rows) :
            Len(rows[r]) = Len(fields) =>
                CompleteRecord(fieldNames(fields), rows[r], result[r])

====
